---- MODULE Spec2Model ----
(***************************************************************************)
(* A model of the client-side BrowserContext proxy (browserContext.ts):    *)
(* its route handler list, its binding registry, the fan-out of network    *)
(* events to the context and page scopes, the close notification,          *)
(* waitForEvent, the API calls that validate their arguments and close();  *)
(* and of the stream reader (stream.ts).  The collaborators whose code is  *)
(* not in the tree (network.RouteHandler, BindingCall.call, Waiter,        *)
(* validateHeaders, isSafeCloseError) are modelled from the specification  *)
(* and are marked so where they are defined.                               *)
(***************************************************************************)
EXTENDS Naturals, Sequences, FiniteSets

VARIABLES
  routes,        \* BrowserContext._routes: sequence of RouteHandler objects
  regCount,      \* number of RouteHandler objects constructed so far
  interception,  \* last setNetworkInterceptionEnabled value sent ("unset" before)
  sentByCall,    \* what the last route()/unroute() call sent ("none" if nothing)
  lastRoute,     \* what the last 'route' event did
  unrouted,      \* ids of the RouteHandler objects unroute() has filtered out
  bindings,      \* BrowserContext._bindings: binding name -> registered function
  exposing,      \* exposeBinding requests sent to the driver and not yet answered
  lastRegistered,\* per name, the function of the latest completed registration
  lastFailed,    \* the name of the exposeBinding request whose failure was the
                 \* last thing to happen to the bindings ("none" otherwise)
  lastCall,      \* what the last 'bindingCall' event did
  requests,      \* per network.Request: _failureText and _timing.responseEnd
  lastWire,      \* the last network or close event received from the channel
  emitted,       \* the emit() calls the handler of that event made, in order
  waiters,       \* the Waiter of every waitForEvent call, in call order
  waitCalls,     \* the arguments of every waitForEvent call, in call order
  closed,        \* BrowserContext._closed
  notified,      \* a close notification has been received
  closedPromise, \* BrowserContext._closedPromise
  hasBrowser,    \* BrowserContext._browser is set (the parent is a Browser)
  browserType,   \* BrowserContext._browserType
  browserContexts,  \* this._browser._contexts
  typeContexts,  \* the browser type's _contexts
  remoteData,    \* the remote stream: the base64 chunks it will serve, in order
  remotePos,     \* how many of them it has served
  flowing,       \* a consumer has started to take data from the Readable
  reading,       \* Readable state: a _read call has not pushed yet
  readsPending,  \* read requests sent on the channel and not yet answered
  readsSent,     \* read requests sent on the channel so far
  buffer,        \* Readable state: chunks pushed and not yet taken by the consumer
  ended,         \* Readable state: push(null) has been called
  delivered,     \* what the consumer has received, in order
  endSeen,       \* the consumer has observed the end of the stream
  errored,       \* the consumer has observed an error
  unhandled,     \* a rejection of _read's promise was left unhandled
  destroyed,     \* Readable state: destroyed
  destroyCalls,  \* destroy() calls made by the consumer
  closesSent,    \* close requests sent on the channel so far
  closesPending, \* close requests sent and not yet answered
  lastReply,     \* what the channel answered last on the stream
  ownerPage,     \* BrowserContext._ownerPage is set
  recordHar,     \* BrowserContext._options.recordHar is set
  requestsSent,  \* requests the context's API calls have sent so far
  lastRequest,   \* the method of the last of them
  lastApi,       \* the last API call that returned or threw at once
  closePc,       \* where the running close() call is
  closeCalls,    \* close() calls made so far
  closeFailure,  \* the step of that close() call that failed, and its error
  closeResult    \* how that close() call ended

routeVars == <<routes, regCount, interception, sentByCall, lastRoute, unrouted>>
bindingVars == <<bindings, exposing, lastRegistered, lastFailed, lastCall>>
eventVars == <<requests, lastWire, emitted>>
waitVars == <<waiters, waitCalls>>
closeVars == <<closed, notified, closedPromise, hasBrowser, browserType,
               browserContexts, typeContexts>>
streamVars == <<remoteData, remotePos, flowing, reading, readsPending, readsSent,
                buffer, ended, delivered, endSeen, errored, unhandled, destroyed,
                destroyCalls, closesSent, closesPending, lastReply>>
apiVars == <<ownerPage, recordHar, requestsSent, lastRequest, lastApi, closePc,
             closeCalls, closeFailure, closeResult>>
vars == <<routeVars, bindingVars, eventVars, waitVars, closeVars, streamVars, apiVars>>

(***************************************************************************)
(* Bounds of the model.                                                    *)
(***************************************************************************)
MaxRegs == 2      \* route() calls in one behaviour
MaxTimes == 2     \* largest `times` option passed to route()
MaxExposing == 2  \* exposeBinding requests awaiting their response at one time
MaxWaits == 2     \* waitForEvent calls in one behaviour
MaxChunks == 2    \* chunks the remote stream holds
HighWaterMark == 2  \* chunks the Readable buffers before it stops reading ahead
MaxReads == 4     \* read requests in one behaviour
MaxDestroys == 2  \* destroy() calls in one behaviour
MaxRequests == 3  \* requests the API calls send in one behaviour
MaxCloses == 2    \* close() calls in one behaviour

(***************************************************************************)
(* Input domains.                                                          *)
(***************************************************************************)
RequestURLs == {"u1", "u2"}
URLMatchers == {"*", "u1"}          \* URLMatch values given to route()/unroute()
RouteCallbacks == {"hA", "hB"}      \* network.RouteHandlerCallback values
TimesOptions == {[limited |-> FALSE, n |-> 0]}
                  \cup {[limited |-> TRUE, n |-> k] : k \in 1..MaxTimes}

BindingNames == {"foo", "bar"}
UserCallbacks == {"cbA", "cbB"}     \* callbacks given to exposeBinding/exposeFunction
ArgLists == {<<>>, <<1, 2>>}        \* arguments of a remote call to a binding
NoBinding == [kind |-> "none", cb |-> "none"]
NoRequest == "none"

Self == "ctx"                       \* the context modelled
Other == "ctx2"                     \* another context of the same browser
Pages == {"p1", "p2"}
Requests == {"r1", "r2"}            \* network.Request objects; only r1 has _timing
Responses == {"s1"}
FailureTexts == {"undefined", "net::ERR_FAILED"}
EndTimings == {"t1", "t2"}          \* responseEndTiming values
hasTiming(r) == r = "r1"
Binaries == {"YWJj", "ZGVm"}        \* base64 payloads of a read response
NoBinary == ""                       \* the binary of a response without data
WaitEvents == {"request", "close"}      \* events waited for; others only occur
CDPTargets == {"page", "frame", "other"}   \* what newCDPSession() is given
HeaderValues == {"valid", "invalid"}       \* Headers objects
ContextOptions ==                          \* BrowserContextOptions
  [videoSize : BOOLEAN, videosPath : BOOLEAN, recordVideo : BOOLEAN,
   extraHTTPHeaders : HeaderValues \cup {"undefined"}]
SafeCloseErrors == {"Target page, context or browser has been closed",
                    "Browser has been closed"}
CloseErrors == SafeCloseErrors \cup {"ENOSPC: no space left on device"}
NoFailure == [step |-> "none", error |-> "none"]
NoResult == [kind |-> "none", error |-> "none"]
Predicates == {Requests \cup Responses \cup {Self}, {"r1"}}  \* payloads accepted
\* waitForEvent's second argument: the predicate itself, or options holding it
WaitArgs == {[isFunction |-> FALSE, predicate |-> p] : p \in Predicates}
              \cup {[isFunction |-> TRUE, predicate |-> {"r1"}]}

(***************************************************************************)
(* network.RouteHandler and urlMatches: their code is not in the tree.     *)
(* A handler carries {urlMatcher, handler, remainingUses: optional count}. *)
(***************************************************************************)
urlMatches(match, requestURL) == match = "*" \/ match = requestURL

RouteHandler(id, url, handler, times) ==
  [id |-> id, url |-> url, handler |-> handler,
   limited |-> times.limited, remainingUses |-> times.n]

expired(h) == h.limited /\ h.remainingUses = 0

matches(h, requestURL) == ~expired(h) /\ urlMatches(h.url, requestURL)

handle(h) ==
  IF h.limited /\ h.remainingUses > 0
    THEN [h EXCEPT !.remainingUses = h.remainingUses - 1]
    ELSE h

(***************************************************************************)
(* BrowserContext.route: this._routes.unshift(new RouteHandler(...)); the  *)
(* interception request is sent only when the list has just become         *)
(* non-empty.                                                              *)
(***************************************************************************)
\* A registration that appends instead of inserting at the front.
pushBack(rs, h) == rs \o <<h>>

unshift(rs, h) == <<h>> \o rs

\* A route() that enables interception at every registration.
enablesAlways(rs) == TRUE

\* if (this._routes.length === 1), after the unshift
enables(rs) == Len(rs) = 1

route(url, handler, times) ==
  /\ regCount < MaxRegs
  /\ regCount' = regCount + 1
  /\ routes' = unshift(routes, RouteHandler(regCount + 1, url, handler, times))
  /\ interception' = IF enables(routes') THEN "on" ELSE interception
  /\ sentByCall' = IF enables(routes') THEN "on" ELSE "none"
  /\ UNCHANGED <<lastRoute, unrouted, bindingVars, eventVars, waitVars, closeVars, streamVars, apiVars>>

(***************************************************************************)
(* BrowserContext.unroute: keeps the handlers the filter accepts; the      *)
(* handler argument is optional ("none" when omitted).                     *)
(***************************************************************************)
keptByUnroute(h, url, handler) ==
  h.url # url \/ (handler # "none" /\ h.handler # handler)

\* if (this._routes.length === 0), after the filter
disables(rs) == Len(rs) = 0

unroute(url, handler) ==
  /\ routes' = SelectSeq(routes, LAMBDA h : keptByUnroute(h, url, handler))
  /\ interception' = IF disables(routes') THEN "off" ELSE interception
  /\ sentByCall' = IF disables(routes') THEN "off" ELSE "none"
  /\ unrouted' = unrouted \cup {routes[k].id : k \in {j \in 1..Len(routes) :
                                       ~keptByUnroute(routes[j], url, handler)}}
  /\ UNCHANGED <<regCount, lastRoute, bindingVars, eventVars, waitVars, closeVars, streamVars, apiVars>>

(***************************************************************************)
(* BrowserContext._onRoute: the for loop over this._routes from position   *)
(* i, returning at the first handler that matches; falling out of the loop *)
(* issues route.continue().  The result lists the positions whose handle() *)
(* was called and how many times continue() was issued.                    *)
(***************************************************************************)
\* The same loop without the return after handle().
RECURSIVE dispatchNoReturn(_, _, _)
dispatchNoReturn(rs, i, requestURL) ==
  IF i > Len(rs)
    THEN [invoked |-> <<>>, continued |-> 1]
    ELSE IF matches(rs[i], requestURL)
           THEN [invoked |-> <<i>> \o dispatchNoReturn(rs, i + 1, requestURL).invoked,
                 continued |-> dispatchNoReturn(rs, i + 1, requestURL).continued]
           ELSE dispatchNoReturn(rs, i + 1, requestURL)

RECURSIVE dispatchFrom(_, _, _)
dispatchFrom(rs, i, requestURL) ==
  IF i > Len(rs)
    THEN [invoked |-> <<>>, continued |-> 1]
    ELSE IF matches(rs[i], requestURL)
           THEN [invoked |-> <<i>>, continued |-> 0]
           ELSE dispatchFrom(rs, i + 1, requestURL)

\* routeHandler.handle(route, request) on the positions in hit; the list itself
\* is not modified by _onRoute.
\* handle() followed by splicing the handler out once its uses are spent.
handledAndSpliced(rs, hit) ==
  SelectSeq([i \in 1..Len(rs) |-> IF i \in hit THEN handle(rs[i]) ELSE rs[i]],
            LAMBDA h : ~expired(h))

handled(rs, hit) ==
  [i \in 1..Len(rs) |-> IF i \in hit THEN handle(rs[i]) ELSE rs[i]]

onRoute(requestURL) ==
  LET d == dispatchFrom(routes, 1, requestURL)
      hit == {d.invoked[k] : k \in 1..Len(d.invoked)}
  IN /\ routes' = handled(routes, hit)
     /\ lastRoute' = [seen |-> TRUE, url |-> requestURL, before |-> routes,
                      invoked |-> [k \in 1..Len(d.invoked) |-> routes[d.invoked[k]].id],
                      continued |-> d.continued]
     /\ UNCHANGED <<regCount, interception, sentByCall, unrouted, bindingVars, eventVars, waitVars, closeVars, streamVars, apiVars>>

(***************************************************************************)
(* BrowserContext.exposeBinding / exposeFunction.  Both first await        *)
(* channel.exposeBinding and register the function when the driver has     *)
(* answered; exposeFunction registers an adapter that drops the source     *)
(* argument.  A failed request throws out of the call before the set().    *)
(***************************************************************************)
\* A registry that refuses a name it already holds.
bindingsSetIfAbsent(b, name, fn) ==
  IF b[name] # NoBinding THEN b ELSE [b EXCEPT ![name] = fn]

bindingsSet(b, name, fn) == [b EXCEPT ![name] = fn]

\* A call that registers the function before the driver has answered.
setBeforeAnswer(b, name, fn) == [b EXCEPT ![name] = fn]

\* The registry while channel.exposeBinding is awaited: not touched yet.
whileAwaited(b, name, fn) == b

sendExposeBinding(name, fn) ==
  /\ Cardinality(exposing) < MaxExposing
  /\ [name |-> name, fn |-> fn] \notin exposing
  /\ exposing' = exposing \cup {[name |-> name, fn |-> fn]}
  /\ bindings' = whileAwaited(bindings, name, fn)
  /\ lastFailed' = NoRequest
  /\ UNCHANGED <<lastRegistered, lastCall, routeVars, eventVars, waitVars, closeVars, streamVars, apiVars>>

exposeBinding(name, callback) ==
  sendExposeBinding(name, [kind |-> "binding", cb |-> callback])

exposeFunction(name, callback) ==
  sendExposeBinding(name, [kind |-> "function", cb |-> callback])

\* The driver accepted the request: the awaiting call resumes and registers.
exposeBindingDone(req) ==
  /\ req \in exposing
  /\ exposing' = exposing \ {req}
  /\ bindings' = bindingsSet(bindings, req.name, req.fn)
  /\ lastRegistered' = [lastRegistered EXCEPT ![req.name] = req.fn]
  /\ lastFailed' = NoRequest
  /\ UNCHANGED <<lastCall, routeVars, eventVars, waitVars, closeVars, streamVars, apiVars>>

\* The request failed: the awaiting call throws; nothing is registered.
exposeBindingFailed(req) ==
  /\ req \in exposing
  /\ exposing' = exposing \ {req}
  /\ lastFailed' = req.name
  /\ UNCHANGED <<bindings, lastRegistered, lastCall, routeVars, eventVars, waitVars, closeVars, streamVars, apiVars>>

(***************************************************************************)
(* BindingCall.call(func): its code (page.ts) is not in the tree.  It      *)
(* invokes func once with the binding source and the call's arguments and  *)
(* answers the remote caller: resolve with the result, or reject with the  *)
(* error func raised.  The failure does not leave call().  A function      *)
(* registered by exposeFunction passes only the arguments on to the user   *)
(* callback.                                                               *)
(***************************************************************************)
userArgs(fn, args) ==
  IF fn.kind = "binding" THEN <<"source">> \o args ELSE args

call(fn, args, throws) ==
  [invoked |-> <<[cb |-> fn.cb, args |-> userArgs(fn, args)]>>,
   response |-> IF throws THEN "reject" ELSE "resolve",
   escaped |-> FALSE]

(***************************************************************************)
(* BrowserContext._onBinding, subscribed to 'bindingCall' by a listener    *)
(* that drops the promise _onBinding returns: an error leaving _onBinding  *)
(* is an unhandled rejection.                                              *)
(***************************************************************************)
\* Looking the function up under a fixed name rather than the call's.
bindingsGetFirst(b, name) == b["foo"]

bindingsGet(b, name) == b[name]

\* Answering a call to an unknown binding with a failure.
rejectUnknown == [invoked |-> <<>>, response |-> "reject", escaped |-> FALSE]

dropCall == [invoked |-> <<>>, response |-> "none", escaped |-> FALSE]

\* Invoking the function directly instead of through BindingCall.call.
invokeDirectly(fn, args, throws) ==
  [invoked |-> <<[cb |-> fn.cb, args |-> userArgs(fn, args)]>>,
   response |-> IF throws THEN "none" ELSE "resolve",
   escaped |-> throws]

awaitCall(fn, args, throws) == call(fn, args, throws)

onBinding(name, args, throws) ==
  LET func == bindingsGet(bindings, name)
      done == IF func = NoBinding THEN dropCall ELSE awaitCall(func, args, throws)
  IN /\ lastCall' = [seen |-> TRUE, name |-> name, args |-> args,
                     threw |-> throws /\ done.invoked # <<>>,
                     registered |-> lastRegistered[name],
                     invoked |-> done.invoked,
                     response |-> done.response,
                     unhandled |-> done.escaped]
     /\ lastFailed' = NoRequest
     /\ UNCHANGED <<bindings, exposing, lastRegistered, routeVars, eventVars, waitVars, closeVars, streamVars, apiVars>>

(***************************************************************************)
(* Waiter: its code (waiter.ts) is not in the tree.  A waiter is a set of  *)
(* registered branches (the target-event listener, the close listener of   *)
(* rejectOnEvent, the timer of rejectOnTimeout); the first branch to fire  *)
(* settles the wait and unregisters every branch.                          *)
(***************************************************************************)
createWaiter(event, accepts, timer, message, onCloseToo) ==
  [event |-> event, accepts |-> accepts, timeout |-> timer, message |-> message,
   state |-> "pending", value |-> "none",
   branches |-> {"event"} \cup (IF timer THEN {"timer"} ELSE {})
                          \cup (IF onCloseToo THEN {"close"} ELSE {})]

\* A settled waiter on which every later occurrence acts as on a pending one.
fireAlways(w, event, payload) ==
  IF event = "close" /\ w.event # "close"
    THEN [w EXCEPT !.state = "rejected", !.value = "Context closed", !.branches = {}]
  ELSE IF event = w.event /\ payload \in w.accepts
    THEN [w EXCEPT !.state = "resolved", !.value = payload, !.branches = {}]
  ELSE w

\* The emitter emits `event` with `payload`.
fire(w, event, payload) ==
  IF w.state # "pending" THEN w
  ELSE IF "close" \in w.branches /\ event = "close"
    THEN [w EXCEPT !.state = "rejected", !.value = "Context closed", !.branches = {}]
  ELSE IF "event" \in w.branches /\ event = w.event /\ payload \in w.accepts
    THEN [w EXCEPT !.state = "resolved", !.value = payload, !.branches = {}]
  ELSE w

\* A timer that rejects the wait and leaves its listeners registered.
fireTimerOnly(w) ==
  IF w.state = "pending" /\ "timer" \in w.branches
    THEN [w EXCEPT !.state = "rejected", !.value = w.message,
                   !.branches = w.branches \ {"timer"}]
    ELSE w

fireTimer(w) ==
  IF w.state = "pending" /\ "timer" \in w.branches
    THEN [w EXCEPT !.state = "rejected", !.value = w.message, !.branches = {}]
    ELSE w

\* Waiter.dispose(): unregisters whatever is still registered; idempotent.
dispose(w) == [w EXCEPT !.branches = {}]

\* this.emit(event, payload) on the context: every listening waiter sees it.
notifyWaiters(ws, event, payload) ==
  [i \in 1..Len(ws) |-> fire(ws[i], event, payload)]

(***************************************************************************)
(* BrowserContext.waitForEvent: rejectOnTimeout, then rejectOnEvent(Close) *)
(* unless the awaited event is the close event itself, then the wait.      *)
(* `timer` says whether the resolved timeout is non-zero.  When the wait    *)
(* resolves, the caller resumes, disposes the waiter and returns.          *)
(***************************************************************************)
\* A timeout error that does not name the awaited event.
timeoutMessageGeneric(event) == "Timeout"

timeoutMessage(event) ==
  CASE event = "request" -> "Timeout while waiting for event \"request\""
    [] event = "response" -> "Timeout while waiting for event \"response\""
    [] OTHER -> "Timeout while waiting for event \"close\""

\* Reading the predicate from the options only.
predicateOfOptions(optionsOrPredicate) ==
  IF optionsOrPredicate.isFunction
    THEN Requests \cup Responses \cup {Self}
    ELSE optionsOrPredicate.predicate

predicateOf(optionsOrPredicate) ==
  IF optionsOrPredicate.isFunction
    THEN optionsOrPredicate.predicate
    ELSE optionsOrPredicate.predicate

\* The caller of a resolved wait resumes: waiter.dispose(), return result.
resumed(w) == IF w.state = "resolved" THEN dispose(w) ELSE w
\* A wait that never listens for the close event.
rejectsNever(event) == FALSE

rejectsOnClose(event) == event # "close"

waitForEvent(event, optionsOrPredicate, timer) ==
  /\ Len(waiters) < MaxWaits
  /\ waiters' = Append(waiters,
                       createWaiter(event, predicateOf(optionsOrPredicate), timer,
                                    timeoutMessage(event), rejectsOnClose(event)))
  /\ waitCalls' = Append(waitCalls, [event |-> event, timer |-> timer,
                                     isFunction |-> optionsOrPredicate.isFunction,
                                     predicate |-> optionsOrPredicate.predicate])
  /\ UNCHANGED <<routeVars, bindingVars, eventVars, closeVars, streamVars, apiVars>>

\* The timer of rejectOnTimeout expires.
timeoutFires(i) ==
  /\ i \in 1..Len(waiters)
  /\ waiters[i].state = "pending"
  /\ "timer" \in waiters[i].branches
  /\ waiters' = [waiters EXCEPT ![i] = fireTimer(waiters[i])]
  /\ UNCHANGED <<waitCalls, routeVars, bindingVars, eventVars, closeVars, streamVars, apiVars>>

(***************************************************************************)
(* BrowserContext._onRequest / _onResponse / _onRequestFailed /            *)
(* _onRequestFinished: emit on the context, then on the page if the event  *)
(* names one.  page is "null" when the event carries no page.              *)
(***************************************************************************)
\* Emitting on the page alone when the event names one.
emitPageOnly(event, payload, page) ==
  IF page # "null"
    THEN <<[scope |-> page, event |-> event, payload |-> payload]>>
    ELSE <<[scope |-> Self, event |-> event, payload |-> payload]>>

emitBoth(event, payload, page) ==
  <<[scope |-> Self, event |-> event, payload |-> payload]>>
    \o (IF page # "null"
          THEN <<[scope |-> page, event |-> event, payload |-> payload]>>
          ELSE <<>>)

\* The emissions of one handler reach the waiters listening on the context.
deliver(ems) ==
  LET own == SelectSeq(ems, LAMBDA e : e.scope = Self)
  IN /\ emitted' = ems
     /\ waiters' = IF own = <<>>
                     THEN waiters
                     ELSE LET ws == notifyWaiters(waiters, own[1].event, own[1].payload)
                          IN [i \in 1..Len(ws) |-> resumed(ws[i])]
     /\ UNCHANGED waitCalls

onRequest(request, page) ==
  /\ lastWire' = [kind |-> "request", payload |-> request, page |-> page]
  /\ deliver(emitBoth("request", request, page))
  /\ UNCHANGED <<requests, routeVars, bindingVars, closeVars, streamVars, apiVars>>

onResponse(response, page) ==
  /\ lastWire' = [kind |-> "response", payload |-> response, page |-> page]
  /\ deliver(emitBoth("response", response, page))
  /\ UNCHANGED <<requests, routeVars, bindingVars, closeVars, streamVars, apiVars>>

onRequestFailed(request, responseEndTiming, failureText, page) ==
  /\ requests' = [requests EXCEPT
        ![request].failureText = IF failureText = "undefined" THEN "null" ELSE failureText,
        ![request].responseEnd = IF hasTiming(request) THEN responseEndTiming ELSE @]
  /\ lastWire' = [kind |-> "requestFailed", payload |-> request, page |-> page]
  /\ deliver(emitBoth("requestfailed", request, page))
  /\ UNCHANGED <<routeVars, bindingVars, closeVars, streamVars, apiVars>>

onRequestFinished(request, responseEndTiming, page) ==
  /\ requests' = [requests EXCEPT
        ![request].responseEnd = IF hasTiming(request) THEN responseEndTiming ELSE @]
  /\ lastWire' = [kind |-> "requestFinished", payload |-> request, page |-> page]
  /\ deliver(emitBoth("requestfinished", request, page))
  /\ UNCHANGED <<routeVars, bindingVars, closeVars, streamVars, apiVars>>

(***************************************************************************)
(* BrowserContext._setBrowserType, called by whoever created the context   *)
(* right after its construction.                                           *)
(***************************************************************************)
setBrowserType(reg, context) == reg \cup {context}

(***************************************************************************)
(* BrowserContext._onClose.  The listener the constructor registered with  *)
(* once(Close) resolves _closedPromise.                                    *)
(***************************************************************************)
\* A close that leaves the context in the registry.
contextsKeep(reg, context) == reg

contextsDelete(reg, context) == reg \ {context}

onClose ==
  /\ closed' = TRUE
  /\ notified' = TRUE
  /\ browserContexts' = IF hasBrowser THEN contextsDelete(browserContexts, Self)
                                      ELSE browserContexts
  /\ typeContexts' = IF browserType # "undefined" THEN contextsDelete(typeContexts, Self)
                                                  ELSE typeContexts
  /\ lastWire' = [kind |-> "close", payload |-> Self, page |-> "null"]
  /\ deliver(<<[scope |-> Self, event |-> "close", payload |-> Self]>>)
  /\ closedPromise' = "resolved"
  /\ UNCHANGED <<requests, hasBrowser, browserType, routeVars, bindingVars, streamVars, apiVars>>

(***************************************************************************)
(* Stream.stream() has returned one StreamImpl, a Node.js Readable whose    *)
(* _read and _destroy are the ones of stream.ts.  What the Readable base    *)
(* class does around them is written where it is used: it calls _read only  *)
(* when no _read is in progress, the stream has neither ended nor been      *)
(* destroyed and the buffer is below the high-water mark; push() ends the   *)
(* _read in progress; destroy() calls _destroy the first time only.         *)
(***************************************************************************)
contextVars == <<routeVars, bindingVars, eventVars, waitVars, closeVars, apiVars>>

\* Buffer.from(binary, 'base64')
decode(binary) ==
  CASE binary = "YWJj" -> "abc"
    [] binary = "ZGVm" -> "def"
    [] OTHER -> ""

\* A Readable that would call _read while a _read is in progress.
mayReadConcurrently(isReading, isEnded, isDestroyed, buffered) ==
  ~isEnded /\ ~isDestroyed /\ buffered < HighWaterMark

mayRead(isReading, isEnded, isDestroyed, buffered) ==
  ~isReading /\ ~isEnded /\ ~isDestroyed /\ buffered < HighWaterMark

\* StreamImpl._read, up to the await: one read request goes out.
read ==
  /\ flowing
  /\ readsSent < MaxReads
  /\ mayRead(reading, ended, destroyed, Len(buffer))
  /\ reading' = TRUE
  /\ readsPending' = readsPending + 1
  /\ readsSent' = readsSent + 1
  /\ UNCHANGED <<remoteData, remotePos, flowing, buffer, ended, delivered, endSeen,
                 errored, unhandled, destroyed, destroyCalls, closesSent,
                 closesPending, lastReply, contextVars>>

\* The remote side answers a read: the next chunk, or no data when exhausted.
served(data, pos) == IF pos < Len(data) THEN data[pos + 1] ELSE NoBinary

\* A _read that takes every response for the end of the stream.
pushedNull(binary) == [end |-> TRUE, chunk |-> ""]

\* StreamImpl._read after the await: push(Buffer) or push(null).
pushed(binary) ==
  IF binary # NoBinary
    THEN [end |-> FALSE, chunk |-> decode(binary)]
    ELSE [end |-> TRUE, chunk |-> ""]

readDone ==
  /\ readsPending > 0
  /\ LET binary == served(remoteData, remotePos)
         p == pushed(binary)
     IN /\ remotePos' = IF binary # NoBinary THEN remotePos + 1 ELSE remotePos
        /\ lastReply' = IF binary # NoBinary THEN "data" ELSE "empty"
        /\ readsPending' = readsPending - 1
        \* push() on a destroyed stream or after the end adds nothing
        /\ IF destroyed \/ ended
             THEN UNCHANGED <<buffer, ended, reading>>
             ELSE /\ buffer' = IF p.end THEN buffer ELSE Append(buffer, p.chunk)
                  /\ ended' = p.end
                  /\ reading' = FALSE
  /\ UNCHANGED <<remoteData, flowing, readsSent, delivered, endSeen, errored,
                 unhandled, destroyed, destroyCalls, closesSent, closesPending,
                 contextVars>>

\* A _destroy that closes the remote stream only if the end was not reached.
sendsCloseUnlessEnded(isEnded) == IF isEnded THEN 0 ELSE 1

\* StreamImpl._destroy: this._channel.close().catch(e => null), not awaited.
sendsClose(isEnded) == 1

\* Readable.destroy() on a stream not yet destroyed.
destroyNow ==
  /\ destroyed' = TRUE
  /\ closesSent' = closesSent + sendsClose(ended)
  /\ closesPending' = closesPending + sendsClose(ended)

\* The read request fails: the promise of the async _read rejects.  Whether
\* the Readable looks at that promise depends on the Node.js release: where
\* it does, the stream is destroyed with the error; where it does not, the
\* rejection is unhandled and nothing is pushed.
readFailed(thenable) ==
  /\ readsPending > 0
  /\ readsPending' = readsPending - 1
  /\ lastReply' = "failed"
  /\ IF destroyed
       THEN UNCHANGED <<errored, unhandled, destroyed, closesSent, closesPending>>
       ELSE IF thenable
         THEN errored' = TRUE /\ destroyNow /\ UNCHANGED unhandled
         ELSE /\ unhandled' = TRUE
              /\ UNCHANGED <<errored, destroyed, closesSent, closesPending>>
  /\ UNCHANGED <<remoteData, remotePos, flowing, reading, readsSent, buffer, ended,
                 delivered, endSeen, destroyCalls, contextVars>>

\* The consumer takes what the Readable has for it: the first buffered chunk,
\* or the end once the buffer is empty after push(null).
consume ==
  /\ ~destroyed
  /\ ~flowing \/ buffer # <<>> \/ (ended /\ ~endSeen)
  /\ flowing' = TRUE
  /\ IF buffer # <<>>
       THEN /\ delivered' = Append(delivered, Head(buffer))
            /\ buffer' = Tail(buffer)
            /\ UNCHANGED endSeen
       ELSE /\ endSeen' = ended
            /\ UNCHANGED <<delivered, buffer>>
  /\ UNCHANGED <<remoteData, remotePos, reading, readsPending, readsSent, ended,
                 errored, unhandled, destroyed, destroyCalls, closesSent,
                 closesPending, lastReply, contextVars>>

\* destroy(): called by the consumer, or by the Readable itself once the end
\* has been observed (autoDestroy).
destroy(explicit) ==
  /\ explicit \/ (endSeen /\ ~destroyed)
  /\ IF explicit
       THEN destroyCalls < MaxDestroys /\ destroyCalls' = destroyCalls + 1
       ELSE UNCHANGED destroyCalls
  /\ IF destroyed
       THEN UNCHANGED <<destroyed, closesSent, closesPending>>
       ELSE destroyNow
  /\ UNCHANGED <<remoteData, remotePos, flowing, reading, readsPending, readsSent,
                 buffer, ended, delivered, endSeen, errored, unhandled, lastReply,
                 contextVars>>

\* The close request is answered, with or without an error.
closeSettled(failed) ==
  /\ closesPending > 0
  /\ closesPending' = closesPending - 1
  /\ lastReply' = IF failed THEN "closeFailed" ELSE "closeDone"
  /\ UNCHANGED <<remoteData, remotePos, flowing, reading, readsPending, readsSent,
                 buffer, ended, delivered, endSeen, errored, unhandled, destroyed,
                 destroyCalls, closesSent, contextVars>>

(***************************************************************************)
(* API calls that validate their arguments: what each sends on the channel *)
(* and how it ends at once.  network.validateHeaders is not in the tree: it *)
(* throws for a Headers object that is not valid.                          *)
(***************************************************************************)
ownVars == <<routeVars, bindingVars, eventVars, waitVars, closeVars, streamVars>>

validHeaders(headers) == headers # "invalid"

threw(message) == [requests |-> <<>>, outcome |-> "error", message |-> message]
sends(method) == [requests |-> <<method>>, outcome |-> "sent", message |-> ""]

\* An API call made of what `r` says: its requests go out, its outcome is kept.
apiCall(op, r) ==
  /\ Len(r.requests) > 0 => requestsSent < MaxRequests
  /\ requestsSent' = requestsSent + Len(r.requests)
  /\ lastRequest' = IF r.requests = <<>> THEN lastRequest
                                         ELSE r.requests[Len(r.requests)]
  /\ lastApi' = [op |-> op, outcome |-> r.outcome, message |-> r.message]
  /\ UNCHANGED <<ownerPage, recordHar, closePc, closeCalls, closeFailure,
                 closeResult, ownVars>>

\* A newPage that asks the driver for the page before it looks at _ownerPage.
newPageSendsFirst(owner) ==
  IF owner
    THEN [requests |-> <<"newPage">>, outcome |-> "error",
          message |-> "Please use browser.newContext()"]
    ELSE sends("newPage")

newPageDoes(owner) ==
  IF owner THEN threw("Please use browser.newContext()")
           ELSE sends("newPage")

newPage == apiCall("newPage", newPageDoes(ownerPage))

newCDPSessionDoes(page) ==
  IF page # "page" /\ page # "frame"
    THEN threw("page: expected Page or Frame")
    ELSE sends("newCDPSession")

newCDPSession(page) == apiCall("newCDPSession", newCDPSessionDoes(page))

setExtraHTTPHeadersDoes(headers) ==
  IF ~validHeaders(headers) THEN threw("invalid headers")
                            ELSE sends("setExtraHTTPHeaders")

setExtraHTTPHeaders(headers) ==
  apiCall("setExtraHTTPHeaders", setExtraHTTPHeadersDoes(headers))

\* prepareBrowserContextParams: the message names the recordVideo of the
\* parameters it returns.
prepareDoes(options) ==
  IF options.videoSize /\ ~options.videosPath
    THEN threw("\"videoSize\" option requires \"videosPath\" to be specified")
  ELSE IF options.extraHTTPHeaders # "undefined"
          /\ ~validHeaders(options.extraHTTPHeaders)
    THEN threw("invalid headers")
  ELSE [requests |-> <<>>, outcome |-> "returned",
        message |-> IF options.recordVideo THEN "recordVideo: as given"
                    ELSE IF options.videosPath THEN "recordVideo: videosPath"
                    ELSE "recordVideo: none"]

prepareBrowserContextParams(options) ==
  apiCall("prepareBrowserContextParams", prepareDoes(options))

(***************************************************************************)
(* BrowserContext.close: the will-close hook of the browser type, the HAR   *)
(* export when recordHar is set, the close request, then the wait for the   *)
(* close event; an error of any step reaches the catch clause.              *)
(* isSafeCloseError is not in the tree: it accepts the already-closed       *)
(* errors.                                                                 *)
(***************************************************************************)
isSafeCloseError(e) == e \in SafeCloseErrors

\* A close() that rethrows whatever it catches.
closeRethrows(e) == [kind |-> "threw", error |-> e]

closeCatch(e) ==
  IF isSafeCloseError(e) THEN [kind |-> "returned", error |-> "none"]
                         ELSE [kind |-> "threw", error |-> e]

closeCall ==
  /\ closePc \in {"idle", "done"}
  /\ closeCalls < MaxCloses
  /\ closeCalls' = closeCalls + 1
  /\ closePc' = "willClose"
  /\ closeFailure' = NoFailure
  /\ closeResult' = NoResult
  /\ UNCHANGED <<ownerPage, recordHar, requestsSent, lastRequest, lastApi, ownVars>>

CloseSteps == {"willClose", "harExport", "saveAs", "delete", "close"}

afterStep(pc) ==
  CASE pc = "willClose" -> IF recordHar THEN "harExport" ELSE "close"
    [] pc = "harExport" -> "saveAs"
    [] pc = "saveAs" -> "delete"
    [] pc = "delete" -> "close"
    [] OTHER -> "awaitClosed"

\* One awaited step of close() ends, with "ok" or with an error.
closeStep(result) ==
  /\ closePc \in CloseSteps
  /\ (closePc = "willClose" /\ browserType = "undefined") => result = "ok"
  \* every step but the hook is one request, sent before its result is known
  /\ requestsSent' = IF closePc = "willClose" THEN requestsSent ELSE requestsSent + 1
  /\ lastRequest' = IF closePc = "willClose" THEN lastRequest ELSE closePc
  /\ IF result = "ok"
       THEN /\ closePc' = afterStep(closePc)
            /\ UNCHANGED <<closeFailure, closeResult>>
       ELSE /\ closePc' = "done"
            /\ closeFailure' = [step |-> closePc, error |-> result]
            /\ closeResult' = closeCatch(result)
  /\ UNCHANGED <<ownerPage, recordHar, lastApi, closeCalls, ownVars>>

\* A close() that does not wait for the close event.
awaitsNothing(promise) == TRUE

\* await this._closedPromise goes on once the promise is resolved.
awaited(promise) == promise = "resolved"

\* await this._closedPromise is over: close() returns.
closeAwaited ==
  /\ closePc = "awaitClosed"
  /\ awaited(closedPromise)
  /\ closePc' = "done"
  /\ closeResult' = [kind |-> "returned", error |-> "none"]
  /\ UNCHANGED <<ownerPage, recordHar, requestsSent, lastRequest, lastApi,
                 closeCalls, closeFailure, ownVars>>

Init ==
  /\ routes = <<>>
  /\ regCount = 0
  /\ interception = "unset"
  /\ sentByCall = "none"
  /\ lastRoute = [seen |-> FALSE, url |-> "u1", before |-> <<>>,
                  invoked |-> <<>>, continued |-> 0]
  /\ unrouted = {}
  /\ bindings = [n \in BindingNames |-> NoBinding]
  /\ exposing = {}
  /\ lastRegistered = [n \in BindingNames |-> NoBinding]
  /\ lastFailed = NoRequest
  /\ lastCall = [seen |-> FALSE, name |-> "foo", args |-> <<>>, threw |-> FALSE,
                 registered |-> NoBinding,
                 invoked |-> <<>>, response |-> "none", unhandled |-> FALSE]
  /\ requests = [r \in Requests |-> [failureText |-> "null", responseEnd |-> "unset"]]
  /\ lastWire = [kind |-> "none", payload |-> Self, page |-> "null"]
  /\ emitted = <<>>
  /\ waiters = <<>>
  /\ waitCalls = <<>>
  /\ closed = FALSE
  /\ notified = FALSE
  /\ closedPromise = "pending"
  /\ hasBrowser \in BOOLEAN
  /\ browserType \in {"undefined", "bt"}
  /\ browserContexts = IF hasBrowser THEN {Self, Other} ELSE {}
  /\ typeContexts = IF browserType = "bt" THEN setBrowserType({Other}, Self)
                                           ELSE {Other}
  /\ remoteData \in UNION {[1..n -> Binaries] : n \in 0..MaxChunks}
  /\ remotePos = 0
  /\ flowing = FALSE
  /\ reading = FALSE
  /\ readsPending = 0
  /\ readsSent = 0
  /\ buffer = <<>>
  /\ ended = FALSE
  /\ delivered = <<>>
  /\ endSeen = FALSE
  /\ errored = FALSE
  /\ unhandled = FALSE
  /\ destroyed = FALSE
  /\ destroyCalls = 0
  /\ closesSent = 0
  /\ closesPending = 0
  /\ lastReply = "none"
  /\ ownerPage \in BOOLEAN
  /\ recordHar \in BOOLEAN
  /\ requestsSent = 0
  /\ lastRequest = "none"
  /\ lastApi = [op |-> "none", outcome |-> "none", message |-> ""]
  /\ closePc = "idle"
  /\ closeCalls = 0
  /\ closeFailure = NoFailure
  /\ closeResult = NoResult

\* The usual case: a context made by browser.newContext().
InitAttached ==
  Init /\ hasBrowser /\ browserType = "bt" /\ remoteData = <<>>
       /\ ~ownerPage /\ ~recordHar

NextRoutes ==
  \/ \E url \in URLMatchers, handler \in RouteCallbacks, times \in TimesOptions :
        route(url, handler, times)
  \/ \E url \in URLMatchers, handler \in RouteCallbacks \cup {"none"} :
        unroute(url, handler)
  \/ \E requestURL \in RequestURLs : onRoute(requestURL)
  \/ onClose

SpecRoutes == InitAttached /\ [][NextRoutes]_vars

NextBindings ==
  \/ \E name \in BindingNames, callback \in UserCallbacks : exposeBinding(name, callback)
  \/ \E name \in BindingNames, callback \in UserCallbacks : exposeFunction(name, callback)
  \/ \E req \in exposing : exposeBindingDone(req)
  \/ \E req \in exposing : exposeBindingFailed(req)
  \/ \E name \in BindingNames, args \in ArgLists, throws \in BOOLEAN :
        onBinding(name, args, throws)
  \/ onClose

SpecBindings == InitAttached /\ [][NextBindings]_vars

\* Registrations, their answers, and calls of the bindings without arguments
\* whose callbacks return.
NextExpose ==
  \/ \E name \in BindingNames, callback \in UserCallbacks : exposeBinding(name, callback)
  \/ \E name \in BindingNames, callback \in UserCallbacks : exposeFunction(name, callback)
  \/ \E req \in exposing : exposeBindingDone(req)
  \/ \E req \in exposing : exposeBindingFailed(req)
  \/ \E name \in BindingNames : onBinding(name, <<>>, FALSE)

SpecExpose == InitAttached /\ [][NextExpose]_vars

NextEvents ==
  \/ \E request \in Requests, page \in Pages \cup {"null"} : onRequest(request, page)
  \/ \E response \in Responses, page \in Pages \cup {"null"} : onResponse(response, page)
  \/ \E request \in Requests, t \in EndTimings, failureText \in FailureTexts,
        page \in Pages \cup {"null"} : onRequestFailed(request, t, failureText, page)
  \/ \E request \in Requests, t \in EndTimings, page \in Pages \cup {"null"} :
        onRequestFinished(request, t, page)
  \/ onClose

\* A context of any parentage, before anything else has been done with it.
InitEvents == Init /\ remoteData = <<>> /\ ~ownerPage /\ ~recordHar

SpecEvents == InitEvents /\ [][NextEvents]_vars

NextWaits ==
  \/ \E event \in WaitEvents, optionsOrPredicate \in WaitArgs, timer \in BOOLEAN :
        waitForEvent(event, optionsOrPredicate, timer)
  \/ \E i \in 1..MaxWaits : timeoutFires(i)
  \/ \E request \in Requests : onRequest(request, "null")
  \/ \E response \in Responses : onResponse(response, "null")
  \/ onClose

SpecWaits == InitAttached /\ [][NextWaits]_vars

NextStream ==
  \/ read
  \/ readDone
  \/ \E thenable \in BOOLEAN : readFailed(thenable)
  \/ consume
  \/ \E explicit \in BOOLEAN : destroy(explicit)
  \/ \E failed \in BOOLEAN : closeSettled(failed)

\* A stream of any content, opened from an attached context.
InitStream == Init /\ hasBrowser /\ browserType = "bt" /\ ~ownerPage /\ ~recordHar

SpecStream == InitStream /\ [][NextStream]_vars

NextCalls ==
  \/ newPage
  \/ \E page \in CDPTargets : newCDPSession(page)
  \/ \E headers \in HeaderValues : setExtraHTTPHeaders(headers)
  \/ \E options \in ContextOptions : prepareBrowserContextParams(options)
  \/ closeCall
  \/ \E result \in {"ok"} \cup CloseErrors : closeStep(result)
  \/ closeAwaited
  \/ onClose

\* A context of a browser, with or without an owner page, a browser type and
\* HAR recording.
InitCalls == Init /\ hasBrowser /\ remoteData = <<>>

SpecCalls == InitCalls /\ [][NextCalls]_vars

Next ==
  NextRoutes \/ NextBindings \/ NextEvents \/ NextWaits \/ NextStream \/ NextCalls

Spec == Init /\ [][Next]_vars

(***************************************************************************)
(* Claims about network events, the close notification and waitForEvent.   *)
(***************************************************************************)
NetworkKinds == {"request", "response", "requestFailed", "requestFinished"}

\* Events.BrowserContext.* / Events.Page.* for a channel event.
eventName(kind) ==
  CASE kind = "request" -> "request"
    [] kind = "response" -> "response"
    [] kind = "requestFailed" -> "requestfailed"
    [] kind = "requestFinished" -> "requestfinished"
    [] OTHER -> "close"

emissionsAt(scope) == {k \in 1..Len(emitted) : emitted[k].scope = scope}

\* C8: one request / response / requestFailed / requestFinished channel event
\* is emitted once on the context and, exactly when it names a page, once on
\* that page and on no other.
C8_FanOut ==
  lastWire.kind \in NetworkKinds =>
     /\ Cardinality(emissionsAt(Self)) = 1
     /\ \A p \in Pages :
           Cardinality(emissionsAt(p)) = IF p = lastWire.page THEN 1 ELSE 0
     /\ \A k \in 1..Len(emitted) :
           /\ emitted[k].event = eventName(lastWire.kind)
           /\ emitted[k].payload = lastWire.payload

\* A requestFailed event naming page p1 went to the context and to p1.
C8_Witness ==
  /\ lastWire.kind = "requestFailed"
  /\ lastWire.page = "p1"
  /\ Len(emitted) = 2
  /\ emissionsAt(Self) = {1}
  /\ emissionsAt("p1") = {2}

\* C9: once a close notification has been received the context is marked
\* closed, is in neither the browser's nor the browser type's registry, and
\* the close event has been emitted locally (it resolved _closedPromise).
C9_CloseNotification ==
  notified =>
     /\ closed
     /\ Self \notin browserContexts
     /\ Self \notin typeContexts
     /\ closedPromise = "resolved"
     /\ lastWire.kind = "close" =>
           emitted = <<[scope |-> Self, event |-> "close", payload |-> Self]>>

\* A context that was in both registries has been closed and a later event has
\* been processed; the other context is still registered.
C9_Witness ==
  /\ notified
  /\ hasBrowser
  /\ browserType = "bt"
  /\ browserContexts = {Other}
  /\ typeContexts = {Other}
  /\ lastWire.kind = "request"

\* C10: when the close event is emitted, every pending wait for an event other
\* than close is rejected with 'Context closed'.
C10_CloseAbortsWait ==
  [][onClose =>
       \A i \in 1..Len(waiters) :
          (waiters[i].state = "pending" /\ waiters[i].event # "close") =>
             /\ waiters'[i].state = "rejected"
             /\ waiters'[i].value = "Context closed"]_vars

\* A wait for 'request' without a timeout was rejected by the close.
C10_Witness ==
  /\ closed
  /\ \E i \in 1..Len(waiters) :
        /\ waiters[i].event = "request"
        /\ ~waiters[i].timeout
        /\ waiters[i].state = "rejected"
        /\ waiters[i].value = "Context closed"

\* The description waitForEvent gives rejectOnTimeout for an awaited event.
describedTimeout(event) ==
  IF event = "request" THEN "Timeout while waiting for event \"request\""
  ELSE IF event = "response" THEN "Timeout while waiting for event \"response\""
  ELSE "Timeout while waiting for event \"close\""

\* The occurrence of the awaited event with this payload is being emitted.
occurs(event, payload) ==
  \/ event = "request" /\ payload \in Requests /\ onRequest(payload, "null")
  \/ event = "response" /\ payload \in Responses /\ onResponse(payload, "null")
  \/ event = "close" /\ payload = Self /\ onClose

WaitPayloads == Requests \cup Responses \cup {Self}

\* C11: a pending wait that has a timeout is resolved with the payload when an
\* accepted occurrence of its event is emitted first, and is rejected with the
\* timeout error describing the awaited event when its timer fires first.
C11_TimeoutRace ==
  [][\A i \in 1..Len(waiters) :
        (waiters[i].state = "pending" /\ waitCalls[i].timer) =>
           /\ timeoutFires(i) =>
                 /\ waiters'[i].state = "rejected"
                 /\ waiters'[i].value = describedTimeout(waitCalls[i].event)
           /\ \A payload \in waitCalls[i].predicate :
                 occurs(waitCalls[i].event, payload) =>
                    /\ waiters'[i].state = "resolved"
                    /\ waiters'[i].value = payload]_vars

\* Two waits for 'request' with a timeout: the timer of the first fired before
\* the request, the request came before the timer of the second.
C11_Witness ==
  /\ Len(waiters) = 2
  /\ \A i \in 1..2 : waitCalls[i].event = "request" /\ waitCalls[i].timer
  /\ waiters[1].state = "rejected"
  /\ waiters[1].value = "Timeout while waiting for event \"request\""
  /\ waiters[2].state = "resolved"
  /\ waiters[2].value = "r2"

\* C12: a wait settles once: whatever happens after it has settled (a further
\* occurrence of its event, the close event, its timer) leaves its outcome as
\* the first branch fixed it.
C12_SettlesOnce ==
  [][\A i \in 1..Len(waiters) :
        waiters[i].state # "pending" =>
           /\ waiters'[i].state = waiters[i].state
           /\ waiters'[i].value = waiters[i].value]_vars

\* A wait for any request resolved with r1; r2 was emitted after that, then
\* the context closed.
C12_Witness ==
  /\ Len(waiters) = 2
  /\ waiters[1].state = "resolved"
  /\ waiters[1].value = "r1"
  /\ "r2" \in waiters[1].accepts
  /\ waiters[2].state = "resolved"
  /\ waiters[2].value = "r2"
  /\ waitCalls[2].predicate = WaitPayloads
  /\ closed

\* What waitForEvent registers for a call.
registeredFor(c) ==
  {"event"} \cup (IF c.timer THEN {"timer"} ELSE {})
            \cup (IF c.event # "close" THEN {"close"} ELSE {})

\* C13: a wait that has settled, by its event, by the close event or by its
\* timer, has none of its listeners and no timer left registered; a pending
\* wait has all of them.
C13_CleanupOnSettle ==
  \A i \in 1..Len(waiters) :
     waiters[i].branches = IF waiters[i].state = "pending"
                             THEN registeredFor(waitCalls[i])
                             ELSE {}

\* One wait was settled by its timer, another by its event, while each had
\* the close listener and a timer registered.
C13_Witness ==
  /\ Len(waiters) = 2
  /\ \A i \in 1..2 : registeredFor(waitCalls[i]) = {"event", "timer", "close"}
  /\ waiters[1].state = "rejected"
  /\ waiters[1].value = describedTimeout(waitCalls[1].event)
  /\ waiters[2].state = "resolved"
  /\ waiters[2].branches = {}

\* C14: an occurrence of the awaited event that the caller's predicate rejects
\* leaves a pending wait as it is; one that the predicate accepts resolves the
\* wait with that occurrence's payload.  The predicate is the function passed
\* as second argument or the predicate option.
C14_PredicateFilters ==
  [][\A i \in 1..Len(waiters), payload \in WaitPayloads :
        (waiters[i].state = "pending" /\ occurs(waitCalls[i].event, payload)) =>
           IF payload \in waitCalls[i].predicate
             THEN waiters'[i].state = "resolved" /\ waiters'[i].value = payload
             ELSE waiters'[i] = waiters[i]]_vars

\* The first wait was given a function accepting r1 only and the second one
\* accepts anything: r2 resolved the second and was ignored by the first,
\* which the r1 emitted last then resolved.
C14_Witness ==
  /\ Len(waiters) = 2
  /\ waitCalls[1].event = "request"
  /\ waitCalls[1].isFunction
  /\ waitCalls[1].predicate = {"r1"}
  /\ waiters[1].state = "resolved"
  /\ waiters[1].value = "r1"
  /\ waiters[2].state = "resolved"
  /\ waiters[2].value = "r2"
  /\ lastWire.kind = "request"
  /\ lastWire.payload = "r1"

(***************************************************************************)
(* Claims about the stream reader.                                         *)
(***************************************************************************)
received == delivered \o buffer   \* what _read has pushed so far, in order

\* C15: the reader hands out the remote chunks in the order they were served;
\* the first read response without data ends the stream, and a stream that
\* has ended over k chunks has sent exactly k + 1 read requests, however long
\* it goes on afterwards.
C15_StreamExhaustion ==
  /\ Len(received) <= Len(remoteData)
  /\ \A i \in 1..Len(received) : received[i] = decode(remoteData[i])
  /\ ended => /\ Len(received) = Len(remoteData)
              /\ readsSent = Len(remoteData) + 1
              /\ readsPending = 0

\* Two chunks then an empty response: the consumer got both in order, saw the
\* end, and three read requests were sent.
C15_Witness ==
  /\ remoteData = <<"YWJj", "ZGVm">>
  /\ delivered = <<"abc", "def">>
  /\ endSeen
  /\ readsSent = 3

C17_DestroyClosesRemote ==
  /\ [](destroyed <=> closesSent = 1)
  /\ [][(\E explicit \in BOOLEAN : destroy(explicit)) => destroyed']_vars
  /\ [][closeSettled(TRUE) =>
          /\ errored' = errored
          /\ unhandled' = unhandled
          /\ destroyed' = destroyed]_vars

\* A stream that had ended was destroyed twice; its one close request failed
\* and no error was observed.
C17_Witness ==
  /\ endSeen
  /\ destroyCalls = 2
  /\ destroyed
  /\ closesSent = 1
  /\ lastReply = "closeFailed"
  /\ ~errored
  /\ ~unhandled

\* C18: a pull whose read request has been answered, by data, by the end or
\* by a failure, is over: the stream is no longer reading unless it has been
\* destroyed, so the consumer gets data, the end or an error.
C18_FailedReadSettlesPull ==
  (reading /\ readsPending = 0) => (errored \/ destroyed)

(***************************************************************************)
(* Claims about argument validation and close().                           *)
(***************************************************************************)
\* The calls the claim names, made with the arguments it names.
rejectedCall ==
  \/ ownerPage /\ newPage
  \/ newCDPSession("other")
  \/ setExtraHTTPHeaders("invalid")
  \/ \E options \in ContextOptions :
        /\ options.videoSize
        /\ ~options.videosPath
        /\ prepareBrowserContextParams(options)

\* C19: newPage() on a context that has an owner page, newCDPSession() with
\* something that is neither a page nor a frame, setExtraHTTPHeaders() with
\* invalid headers and prepareBrowserContextParams with videoSize but no
\* videosPath fail, send no request and leave the context as it was.
C19_ValidationBeforeTransport ==
  [][rejectedCall =>
       /\ lastApi'.outcome = "error"
       /\ requestsSent' = requestsSent
       /\ lastRequest' = lastRequest
       /\ UNCHANGED <<ownVars, ownerPage, recordHar, closePc, closeResult>>]_vars

\* After a request had been sent, newPage() was refused on a context with an
\* owner page.
C19_Witness ==
  /\ ownerPage
  /\ lastApi.op = "newPage"
  /\ lastApi.outcome = "error"
  /\ lastApi.message = "Please use browser.newContext()"
  /\ requestsSent = 1
  /\ lastRequest = "setExtraHTTPHeaders"

\* C20: a close() call one of whose steps failed has returned normally if the
\* error was an already-closed error, and has thrown that very error
\* otherwise; a close() call none of whose steps failed has returned.
C20_SafeCloseSuppressed ==
  closePc = "done" =>
     IF closeFailure.error \in SafeCloseErrors \cup {"none"}
       THEN closeResult = [kind |-> "returned", error |-> "none"]
       ELSE closeResult = [kind |-> "threw", error |-> closeFailure.error]

\* The context was closed while close() was exporting the HAR: the export
\* failed with an already-closed error and close() returned.
C20_Witness ==
  /\ closed
  /\ closePc = "done"
  /\ closeFailure = [step |-> "harExport",
                     error |-> "Target page, context or browser has been closed"]
  /\ closeResult.kind = "returned"

\* close() has returned and no step of it had failed.
closeCompleted ==
  /\ closePc = "done"
  /\ closeResult.kind = "returned"
  /\ closeFailure = NoFailure

\* C22: a close() call that returned without any error has seen the close
\* notification processed (closed flag set, close event emitted, which
\* resolved _closedPromise); until then it stays at its last await.  The
\* close request is sent only after the will-close hook and, with recordHar,
\* after HAR export, save and delete have completed in that order.
C22_CloseAfterCloseEvent ==
  /\ [](closeCompleted => (closed /\ notified /\ closedPromise = "resolved"))
  /\ [][(closePc = "awaitClosed" /\ closedPromise' = "pending") =>
           closePc' = "awaitClosed"]_vars
  /\ [][(closePc' = "close" /\ closePc # "close") =>
           \/ closePc = "delete" /\ recordHar
           \/ closePc = "willClose" /\ ~recordHar]_vars
  /\ [][(closePc' = "delete" /\ closePc # "delete") => closePc = "saveAs"]_vars
  /\ [][(closePc' = "saveAs" /\ closePc # "saveAs") => closePc = "harExport"]_vars

\* With recordHar set, the first close() call sent its close request last,
\* waited, and returned after the close notification.
C22_Witness ==
  /\ recordHar
  /\ closeCalls = 1
  /\ closeCompleted
  /\ lastRequest = "close"
  /\ closed
  /\ lastWire.kind = "close"

(***************************************************************************)
(* Claims about the binding registry.  lastCall.registered is the function *)
(* of the latest registration of the called name that had completed when   *)
(* the bindingCall event arrived.                                          *)
(***************************************************************************)
\* C4: once a registration of a name has completed, a bindingCall naming it
\* invokes the callback registered under that name exactly once, with the
\* call's arguments (after the source, for exposeBinding).
C4_BindingRoundTrip ==
  (lastCall.seen /\ lastCall.registered # NoBinding) =>
     /\ Len(lastCall.invoked) = 1
     /\ lastCall.invoked[1].cb = lastCall.registered.cb
     /\ lastCall.invoked[1].args =
           IF lastCall.registered.kind = "binding"
             THEN <<"source">> \o lastCall.args
             ELSE lastCall.args

\* exposeBinding("foo", cbA) completed, another callback is registered under
\* "bar", and a call of "foo" with [1, 2] invoked cbA once with them.
C4_Witness ==
  /\ lastCall.seen
  /\ lastCall.name = "foo"
  /\ lastCall.args = <<1, 2>>
  /\ lastCall.registered = [kind |-> "binding", cb |-> "cbA"]
  /\ bindings["bar"] # NoBinding /\ bindings["bar"].cb = "cbB"
  /\ lastCall.invoked = <<[cb |-> "cbA", args |-> <<"source", 1, 2>>]>>

\* C5: the registry holds, for every name, the function of the latest completed
\* registration of that name: registering a name again replaces the entry.
C5_LastWriteWins ==
  \A n \in BindingNames : bindings[n] = lastRegistered[n]

\* "foo" was called while one function was registered, and a later registration
\* of "foo" with another callback has completed and replaced it.
C5_Witness ==
  /\ lastCall.seen
  /\ lastCall.name = "foo"
  /\ lastCall.registered # NoBinding
  /\ lastRegistered["foo"] # NoBinding
  /\ lastRegistered["foo"].cb # lastCall.registered.cb
  /\ bindings["foo"] = lastRegistered["foo"]

\* C6: a bindingCall whose callback raises is answered with a rejection, the
\* error does not leave the event handler, and the bindings, the routes and
\* the closed flag are as before.
C6_CallbackFailureReported ==
  [][\A name \in BindingNames, args \in ArgLists :
        (onBinding(name, args, TRUE) /\ bindings[name] # NoBinding) =>
           /\ lastCall'.response = "reject"
           /\ ~lastCall'.unhandled
           /\ bindings' = bindings
           /\ routes' = routes
           /\ closed' = closed]_vars

\* A registered callback was invoked, raised, and the call was rejected.
C6_Witness ==
  /\ lastCall.seen
  /\ lastCall.threw
  /\ Len(lastCall.invoked) = 1
  /\ lastCall.response = "reject"
  /\ ~lastCall.unhandled

\* C7: a bindingCall naming a binding with no registry entry invokes nothing,
\* raises nothing, sends no response and leaves the registry as it was.
C7_UnknownBindingDropped ==
  [][\A name \in BindingNames, args \in ArgLists, throws \in BOOLEAN :
        (onBinding(name, args, throws) /\ bindings[name] = NoBinding) =>
           /\ lastCall'.invoked = <<>>
           /\ lastCall'.response = "none"
           /\ ~lastCall'.unhandled
           /\ bindings' = bindings]_vars

\* The call arrived while the registration of its name was still awaiting the
\* driver's answer, and was dropped.
C7_Witness ==
  /\ lastCall.seen
  /\ lastCall.registered = NoBinding
  /\ bindings[lastCall.name] = NoBinding
  /\ \E req \in exposing : req.name = lastCall.name
  /\ lastCall.invoked = <<>>
  /\ lastCall.response = "none"

\* C23: the binding registry changes only when the driver has accepted an
\* exposeBinding request, and then by that request's name and function; when
\* a request fails the registry stays as it was, so a function registered
\* under the same name before is still the one a call invokes.
C23_ExposeAtomicOnError ==
  /\ [][bindings' # bindings =>
          \E req \in exposing :
             /\ exposing' = exposing \ {req}
             /\ lastFailed' = NoRequest
             /\ bindings' = [bindings EXCEPT ![req.name] = req.fn]]_vars
  /\ [][(lastFailed' # NoRequest /\ exposing' # exposing) =>
          bindings' = bindings]_vars
  /\ [][(/\ lastFailed # NoRequest
          /\ bindings[lastFailed] # NoBinding
          /\ onBinding(lastFailed, <<>>, FALSE)) =>
            lastCall'.invoked[1].cb = bindings[lastFailed].cb]_vars

\* A request to expose "foo" has just failed while the cbA given to an
\* earlier exposeBinding was registered under "foo": the registry still holds
\* cbA.
C23_Witness ==
  /\ lastFailed = "foo"
  /\ bindings["foo"] = [kind |-> "binding", cb |-> "cbA"]
  /\ lastRegistered["foo"] = bindings["foo"]
  /\ exposing = {}

(***************************************************************************)
(* Claims about route handling.                                            *)
(***************************************************************************)
\* Positions of the handlers of the last route event's list that accept its URL.
matchingBefore ==
  {k \in 1..Len(lastRoute.before) : matches(lastRoute.before[k], lastRoute.url)}

listed(id) == \E k \in 1..Len(routes) : routes[k].id = id

\* C1: when a route event's URL is matched by one or more registered handlers,
\* the handler invoked is the most recently registered of the matching ones
\* (ids grow with registration order).
C1_RoutePrecedence ==
  (lastRoute.seen /\ matchingBefore # {}) =>
     /\ Len(lastRoute.invoked) = 1
     /\ \E k \in matchingBefore : lastRoute.before[k].id = lastRoute.invoked[1]
     /\ \A k \in matchingBefore : lastRoute.before[k].id <= lastRoute.invoked[1]

\* A then B registered for "*"; the route event was handled by B.
C1_Witness ==
  /\ lastRoute.seen
  /\ Len(lastRoute.before) = 2
  /\ lastRoute.before[1].url = "*" /\ lastRoute.before[2].url = "*"
  /\ matchingBefore = {1, 2}
  /\ lastRoute.before[1].id > lastRoute.before[2].id
  /\ lastRoute.invoked = <<lastRoute.before[1].id>>

\* C2: every route event has exactly one outcome: the first handler in list
\* order that accepts the URL is invoked, alone and without the default
\* continue; or no handler accepts it and exactly one continue is issued.
C2_ExactlyOneOutcome ==
  lastRoute.seen =>
     \/ /\ Len(lastRoute.invoked) = 1
        /\ lastRoute.continued = 0
        /\ \E k \in matchingBefore :
              /\ lastRoute.before[k].id = lastRoute.invoked[1]
              /\ \A j \in matchingBefore : k <= j
     \/ /\ Len(lastRoute.invoked) = 0
        /\ lastRoute.continued = 1
        /\ matchingBefore = {}

\* The first handler did not accept the URL, the second did and was invoked
\* without a default continue.
C2_Witness ==
  /\ lastRoute.seen
  /\ Len(lastRoute.before) = 2
  /\ matchingBefore = {2}
  /\ lastRoute.invoked = <<lastRoute.before[2].id>>
  /\ lastRoute.continued = 0

\* C3 as stated: a handler registered with a use count is no longer an element
\* of the list once its remaining uses are zero.
C3_RemovedWhenSpent ==
  \A k \in 1..Len(routes) : ~expired(routes[k])

\* C3 amended: a handler whose uses are spent is never invoked again, but it
\* stays an element of the list: only unroute() takes a handler out of it.
C3_SpentStaysUntilUnroute ==
  /\ \A id \in 1..regCount : listed(id) \/ id \in unrouted
  /\ lastRoute.seen =>
        \A i \in 1..Len(lastRoute.invoked), k \in 1..Len(lastRoute.before) :
           lastRoute.before[k].id = lastRoute.invoked[i]
              => ~expired(lastRoute.before[k])

\* A handler whose uses are spent is still listed, and the last event, whose
\* URL its matcher accepts, was not given to it.
C3_Witness ==
  /\ lastRoute.seen
  /\ \E k \in 1..Len(routes) :
        /\ expired(routes[k])
        /\ \E j \in 1..Len(lastRoute.before) :
              /\ lastRoute.before[j].id = routes[k].id
              /\ expired(lastRoute.before[j])
              /\ urlMatches(routes[k].url, lastRoute.url)
  /\ lastRoute.invoked = <<>>
\* route() or unroute() is called, with any arguments.
routeCalled ==
  \E url \in URLMatchers, handler \in RouteCallbacks, times \in TimesOptions :
     route(url, handler, times)

unrouteCalled ==
  \E url \in URLMatchers, handler \in RouteCallbacks \cup {"none"} :
     unroute(url, handler)

\* C21 as stated: the last interception value sent is true exactly when the
\* handler list is non-empty; route() sends true only when it makes an empty
\* list non-empty, unroute() sends false only when it makes a non-empty list
\* empty.
C21_SendsOnTransitionsOnly ==
  /\ [](interception = "on" <=> Len(routes) > 0)
  /\ [][routeCalled => (sentByCall' = "on" <=> Len(routes) = 0)]_vars
  /\ [][unrouteCalled =>
          (sentByCall' = "off" <=> (Len(routes) > 0 /\ Len(routes') = 0))]_vars

\* C21, amended: the last interception value sent is true exactly when the
\* handler list is non-empty; route() sends true exactly when the list was
\* empty before it, and unroute() sends false exactly when the list is empty
\* after it, whether or not it was empty before.
C21_InterceptionTracksRoutes ==
  /\ [](interception = "on" <=> Len(routes) > 0)
  /\ [][routeCalled =>
          /\ sentByCall' = (IF Len(routes) = 0 THEN "on" ELSE "none")
          /\ interception' = "on"]_vars
  /\ [][unrouteCalled =>
          /\ sentByCall' = (IF Len(routes') = 0 THEN "off" ELSE "none")
          /\ interception' = (IF Len(routes') = 0 THEN "off" ELSE "on")]_vars

\* Two handlers were registered and one was removed without a request; the
\* list is non-empty and the last value sent is still true.
C21_Witness ==
  /\ regCount = 2
  /\ Len(routes) = 1
  /\ Cardinality(unrouted) = 1
  /\ sentByCall = "none"
  /\ interception = "on"

====
